---- MODULE Spec2Model ----
(***************************************************************************)
(* Model of the events-executor core of rclcpp:                            *)
(*   - TimersQueue                       (src/unnamed/part_000)            *)
(*   - EventsExecutorEntitiesCollector   (events_executor_entities_        *)
(*                                        collector.cpp)                   *)
(* Two specifications share the variables:                                 *)
(*   Spec    the entities collector(s), their nodes and the timers queue   *)
(*           of each executor, driven by add_node / remove_node / execute  *)
(*           / destruction;                                                *)
(*   SpecTQ  one TimersQueue driven directly through its public methods,   *)
(*           with the clock advancing.                                     *)
(***************************************************************************)
EXTENDS Integers, Sequences, FiniteSets, TLC

\* ------------------------------------------------------------------ bounds
NumNodes == 2
GroupsPerNode == 1
NumCollectors == 2
NumThreads == 2
NumTQTimers == 2
MaxQueueLen == 3
MaxTime == 2
MaxPeriod == 1
NumHandlers == 2
MaxDelta == 2
MaxCopies == 2
NumClientIds == 2
NumClients == 2

\* ------------------------------------------------------------- the universe
Nodes == 1..NumNodes
Collectors == 1..NumCollectors
Threads == 1..NumThreads
\* callback group k of node n
Groups == Nodes \X (1..GroupsPerNode)
GroupsOf(n) == [k \in 1..GroupsPerNode |-> <<n, k>>]
\* every callback group owns one timer and one entity of each other kind
Timers == 1..(NumNodes * GroupsPerNode)
TimerOf(g) == (g[1] - 1) * GroupsPerNode + g[2]
NodeOfTimer(t) == ((t - 1) \div GroupsPerNode) + 1
Kinds == {"subscription", "service", "client", "waitable"}
\* the timers handed to the queue when it is driven directly (SpecTQ)
TQTimers == {t \in Timers : t <= NumTQTimers}
\* the executor whose queue SpecTQ drives
TQExec == CHOOSE c \in Collectors : \A c2 \in Collectors : c <= c2
MaxDue == MaxTime + MaxPeriod

VARIABLES
  now,                \* the clock the timers read
  due,                \* due[t]: the time timer t triggers next
  timers_queue,       \* timers_queue[c]: TimersQueue::timers_queue of executor c
  weak_nodes_,        \* weak_nodes_[c]: the collector's stored node references
  has_executor,       \* has_executor[n]: the node's association flag
  node_alive,         \* node_alive[n]: a weak reference to n still resolves
  collector_alive,    \* collector_alive[c]: the collector is not yet destroyed
  can_be_taken_from,  \* can_be_taken_from[g]: the group's takeable flag
  slot,               \* slot[g][k]: callback slot of the entity of kind k of g
  notify_gc,          \* notify_gc[n]: callback of the node's guard condition
  call,               \* call[th]: position of thread th inside add_node
  rcl_clock_,         \* Clock::rcl_clock_: validity, override flag, jump callbacks
  handlers,           \* handlers[h]: the JumpHandler at address h and its handle
  clients_,           \* ServiceIntraProcessBase::clients_, as (id, client) pairs
  reentrant_mutex_,   \* ServiceIntraProcessBase::reentrant_mutex_
  ipc,                \* ipc[th]: position of thread th inside the registry
  last                \* the operation that completed last, and its outcome

vars == <<now, due, timers_queue, weak_nodes_, has_executor, node_alive,
          collector_alive, can_be_taken_from, slot, notify_gc, call,
          rcl_clock_, handlers, clients_, reentrant_mutex_, ipc, last>>

clockVars == <<rcl_clock_, handlers>>
registryVars == <<clients_, reentrant_mutex_, ipc>>

\* ------------------------------------------------------------ small helpers
Range(s) == {s[i] : i \in DOMAIN s}
Count(s, x) == Cardinality({i \in DOMAIN s : s[i] = x})
RemoveAt(s, i) == [j \in 1..(Len(s) - 1) |-> IF j < i THEN s[j] ELSE s[j + 1]]
Perms(n) == {f \in [1..n -> 1..n] : \A i, j \in 1..n : i # j => f[i] # f[j]}

\* ------------------------------------------------------------------- timers
\* TimerBase, as the queue uses it
time_until_trigger(d, n, t) == d[t] - n
is_ready(d, n, t) == time_until_trigger(d, n, t) <= 0
\* the period of timer t; a timer of period 0 is due again at once
Period(t) == t % (MaxPeriod + 1)
\* execute_callback: the timer reschedules itself one period later
execute_callback(d, t) == [d EXCEPT ![t] = @ + Period(t)]

\* ------------------------------------------------------------- TimersQueue
\* timer_less_than_comparison
timer_less_than(d, n, t1, t2) ==
  time_until_trigger(d, n, t1) < time_until_trigger(d, n, t2)

IsOrdered(q, d, n) ==
  \A i, j \in DOMAIN q : i < j => ~timer_less_than(d, n, q[j], q[i])

\* std::sort is not stable: every arrangement that the comparison accepts
reorder_queue_unsorted(q, d, n) == {q}
reorder_queue(q, d, n) ==
  {p \in {[i \in DOMAIN q |-> q[f[i]]] : f \in Perms(Len(q))} : IsOrdered(p, d, n)}

add_timer(q, t, d, n) == reorder_queue(Append(q, t), d, n)

clear_all_keep(q) == q
clear_all(q) == <<>>

remove_timer_all(q, t) == SelectSeq(q, LAMBDA x : x # t)
remove_timer(q, t) ==
  IF \E i \in DOMAIN q : q[i] = t
  THEN RemoveAt(q, CHOOSE i \in DOMAIN q : q[i] = t /\ \A j \in 1..(i - 1) : q[j] # t)
  ELSE q

\* result of get_head_timeout; nanoseconds::max() is kept symbolic
DurationMax == [kind |-> "max", ns |-> 0]
Duration(x) == [kind |-> "duration", ns |-> x]
Crash == [kind |-> "crash", ns |-> 0]
\* front() of an empty vector is undefined: the read faults, or yields a null
\* pointer, or yields a stale pointer to a timer that was in the queue before
get_head_timeout(q, d, n) ==
  IF q = <<>>
  THEN {Crash, DurationMax} \cup {Duration(time_until_trigger(d, n, t)) : t \in TQTimers}
  ELSE {Duration(time_until_trigger(d, n, q[1]))}

\* the loop of execute_ready_timers from position i on; the set of outcomes,
\* one per choice of the time that elapses while each callback runs
RECURSIVE execute_loop(_, _, _, _, _)
execute_loop(q, i, d, n, fired) ==
  IF i > Len(q) \/ ~is_ready(d, n, q[i])
  THEN {[due |-> d, now |-> n, fired |-> fired]}
  ELSE UNION {
         execute_loop(q, i + 1, execute_callback(d, q[i]), n + e,
                      Append(fired, [timer |-> q[i],
                                     tut |-> time_until_trigger(d, n, q[i])]))
         : e \in {x \in 0..1 : n + x <= MaxTime /\ d[q[i]] + Period(q[i]) <= MaxDue} }

\* ------------------------------------------------------------------ Clock
\* the addresses at which a JumpHandler can be allocated
HandlerIds == 1..NumHandlers
\* the delta of a time jump
Deltas == {d \in (0 - MaxDelta)..MaxDelta : d # 0}
\* rcl_jump_threshold_t
Thresholds ==
  {[on_clock_change |-> a, min_forward |-> f, min_backward |-> MaxDelta + 1 - f] :
     a \in BOOLEAN, f \in {1, MaxDelta}}

\* the memory at an address that holds no JumpHandler
NoHandler ==
  [allocated |-> FALSE, pre_callback |-> FALSE, post_callback |-> FALSE,
   threshold |-> [on_clock_change |-> FALSE, min_forward |-> MaxDelta,
                  min_backward |-> MaxDelta],
   copies |-> 0]
\* new rclcpp::JumpHandler(pre_callback, post_callback, threshold), and the
\* first copy of the shared pointer that create_jump_callback returns
JumpHandler(pre, post, threshold) ==
  [allocated |-> TRUE, pre_callback |-> pre, post_callback |-> post,
   threshold |-> threshold, copies |-> 1]

\* the user_data pointers that the clock has a jump callback for
Registered == {cb.user_data : cb \in rcl_clock_.jump_callbacks}
\* the handlers of which a copy of the handle is still held
Held == {h \in HandlerIds : handlers[h].copies > 0}

\* rcl_clock_add_jump_callback(&rcl_clock_, threshold, on_time_jump, handler)
rcl_clock_add_jump_callback(clock, threshold, h) ==
  [clock EXCEPT !.jump_callbacks = @ \cup {[user_data |-> h, threshold |-> threshold]}]
\* rcl_clock_remove_jump_callback(&rcl_clock_, on_time_jump, handler)
rcl_clock_remove_jump_callback(clock, h) ==
  [clock EXCEPT !.jump_callbacks = {cb \in @ : cb.user_data # h}]

\* the rule by which the clock decides that a jump concerns a callback
Satisfies(threshold, delta) ==
  \/ threshold.on_clock_change
  \/ delta > 0 /\ delta >= threshold.min_forward
  \/ delta < 0 /\ (0 - delta) >= threshold.min_backward

\* Clock::on_time_jump: the callbacks of the handler that one notification runs
on_time_jump_both(handler, before_jump) ==
  {x \in {"pre"} : handler.pre_callback} \cup {x \in {"post"} : handler.post_callback}
on_time_jump(handler, before_jump) ==
  IF before_jump /\ handler.pre_callback THEN {"pre"}
  ELSE IF ~before_jump /\ handler.post_callback THEN {"post"}
  ELSE {}

\* what one notification does with user_data h: on_time_jump on the handler,
\* or, when the handler was deleted, a read of freed memory, which faults or
\* finds any of the two callbacks present or absent
Notify(h, before_jump) ==
  IF handlers[h].allocated
  THEN {on_time_jump(handlers[h], before_jump)}
  ELSE {{"crash"}, {}, {"pre"}, {"post"}}

\* Clock::ros_time_is_active; ret is what rcl_is_enabled_ros_time_override
\* returns when it is called
ros_time_is_active(clock, ret) ==
  IF ~clock.valid
  THEN [result |-> "false", logged |-> TRUE, ret |-> "not_called"]
  ELSE IF ret # "RCL_RET_OK"
  THEN [result |-> "throw", logged |-> FALSE, ret |-> ret]
  ELSE [result |-> IF clock.ros_time_override THEN "true" ELSE "false",
        logged |-> FALSE, ret |-> ret]

InitClock ==
  /\ rcl_clock_ = [valid |-> TRUE, ros_time_override |-> FALSE, jump_callbacks |-> {}]
  /\ handlers = [h \in HandlerIds |-> NoHandler]

\* ---------------------------------------------------- ServiceIntraProcessBase
ClientIds == 1..NumClientIds
Clients == 1..NumClients

\* clients_[client_id] = client, on the contents m of the map
store(m, id, client) == {e \in m : e[1] # id} \cup {<<id, client>>}

\* std::recursive_mutex: a thread may lock it when no other thread owns it
may_lock_any(m, th) == TRUE
may_lock(m, th) == m.owner = 0 \/ m.owner = th
lock(m, th) == [owner |-> th, count |-> m.count + 1]
unlock(m) == IF m.count = 1 THEN [owner |-> 0, count |-> 0]
             ELSE [m EXCEPT !.count = @ - 1]

IpcIdle == [pc |-> "idle", id |-> 0, client |-> 0, nested |-> FALSE, seen |-> {}]

InitRegistry ==
  /\ clients_ = {}
  /\ reentrant_mutex_ = [owner |-> 0, count |-> 0]
  /\ ipc = [th \in Threads |-> IpcIdle]

\* ---------------------------------------------------------- initial states
NullPair == [context |-> 0, fn |-> 0]
\* init(): the dispatch pair the executor of collector c hands to it
DispatchPair(c) == [context |-> c, fn |-> c]

InitCollectors ==
  /\ weak_nodes_ = [c \in Collectors |-> <<>>]
  /\ has_executor = [n \in Nodes |-> FALSE]
  /\ node_alive = [n \in Nodes |-> TRUE]
  /\ collector_alive = [c \in Collectors |-> TRUE]
  /\ can_be_taken_from = [g \in Groups |-> TRUE]
  /\ slot = [g \in Groups |-> [k \in Kinds |-> NullPair]]
  /\ call = [th \in Threads |-> [pc |-> "idle", c |-> 0, n |-> 0]]
  /\ timers_queue = [c \in Collectors |-> <<>>]
  /\ InitClock
  /\ InitRegistry
  /\ last = [op |-> "none"]

\* --------------------------------------- SpecTQ: the queue, driven directly
InitTQ ==
  /\ InitCollectors
  /\ notify_gc = [n \in Nodes |-> NullPair]
  /\ now = 0
  /\ due \in {d \in [Timers -> 0..MaxTime] : \A t \in Timers \ TQTimers : d[t] = 0}

collectorVars == <<weak_nodes_, has_executor, node_alive, collector_alive,
                   can_be_taken_from, slot, notify_gc, call>>

TQAddTimer(t) ==
  /\ Len(timers_queue[TQExec]) < MaxQueueLen
  /\ \E q \in add_timer(timers_queue[TQExec], t, due, now) :
       timers_queue' = [timers_queue EXCEPT ![TQExec] = q]
  /\ last' = [op |-> "add_timer", timer |-> t]
  /\ UNCHANGED <<now, due, collectorVars, clockVars, registryVars>>

TQRemoveTimer(t) ==
  /\ timers_queue' = [timers_queue EXCEPT ![TQExec] = remove_timer(@, t)]
  /\ last' = [op |-> "remove_timer", timer |-> t]
  /\ UNCHANGED <<now, due, collectorVars, clockVars, registryVars>>

TQClearAll ==
  /\ timers_queue' = [timers_queue EXCEPT ![TQExec] = clear_all(@)]
  /\ last' = [op |-> "clear_all"]
  /\ UNCHANGED <<now, due, collectorVars, clockVars, registryVars>>

TQGetHeadTimeout ==
  /\ \E r \in get_head_timeout(timers_queue[TQExec], due, now) :
       last' = [op |-> "get_head_timeout", result |-> r]
  /\ UNCHANGED <<now, due, timers_queue, collectorVars, clockVars, registryVars>>

TQExecuteReadyTimers ==
  /\ \E out \in execute_loop(timers_queue[TQExec], 1, due, now, <<>>) :
       /\ due' = out.due
       /\ now' = out.now
       /\ \E q \in reorder_queue(timers_queue[TQExec], out.due, out.now) :
            timers_queue' = [timers_queue EXCEPT ![TQExec] = q]
       /\ last' = [op |-> "execute_ready_timers", fired |-> out.fired]
  /\ UNCHANGED <<collectorVars, clockVars, registryVars>>

\* time passes between two calls
Tick ==
  /\ now < MaxTime
  /\ now' = now + 1
  /\ last' = [op |-> "tick"]
  /\ UNCHANGED <<due, timers_queue, collectorVars, clockVars, registryVars>>

NextTQ ==
  \/ \E t \in TQTimers : TQAddTimer(t)
  \/ \E t \in TQTimers : TQRemoveTimer(t)
  \/ TQClearAll
  \/ TQGetHeadTimeout
  \/ TQExecuteReadyTimers
  \/ Tick

SpecTQ == InitTQ /\ [][NextTQ]_vars

\* ------------------------------------------- EventsExecutorEntitiesCollector
\* the callbacks init() stores: push_timer_, clear_timer_, clear_all_timers_
\* of collector c act on the TimersQueue of its executor
push_timer_(q, t, d, n) == add_timer(q, t, d, n)
clear_timer_(q, t) == remove_timer(q, t)
clear_all_timers_(q) == clear_all(q)

\* weak_node.lock(): the reference resolves
Resolves(n) == node_alive[n]
Tracks(c, n) == \E i \in DOMAIN weak_nodes_[c] : weak_nodes_[c][i] = n
Inside(th, c) == call[th].pc # "idle" /\ call[th].c = c

\* the groups an enumeration of node n visits: '!group || !can_be_taken_from'
\* skips the others
TakeableGroups_all(n) == GroupsOf(n)
TakeableGroups(n) == SelectSeq(GroupsOf(n), LAMBDA g : can_be_taken_from[g])

\* the groups set_entities_callbacks visits, in the order it visits them
RECURSIVE VisitedGroups(_)
VisitedGroups(ns) ==
  IF ns = <<>> THEN <<>>
  ELSE (IF Resolves(Head(ns)) THEN TakeableGroups(Head(ns)) ELSE <<>>)
         \o VisitedGroups(Tail(ns))

\* push_timer_ for the timer of each group of gs in turn, from any queue of qs
RECURSIVE PushTimers(_, _)
PushTimers(qs, gs) ==
  IF gs = <<>> THEN qs
  ELSE PushTimers(UNION {push_timer_(q, TimerOf(Head(gs)), due, now) : q \in qs}, Tail(gs))

\* clear_timer_ for the timer of each group of gs in turn
RECURSIVE ClearTimers(_, _)
ClearTimers(q, gs) ==
  IF gs = <<>> THEN q ELSE ClearTimers(clear_timer_(q, TimerOf(Head(gs))), Tail(gs))

\* set_events_executor_callback on the subscription, service, client and
\* waitable of every group of gs
SetCallbacks_no_waitable(gs, pair) ==
  [g \in Groups |->
     IF g \in Range(gs)
     THEN [k \in Kinds |-> IF k = "waitable" THEN slot[g][k] ELSE pair]
     ELSE slot[g]]
SetCallbacks(gs, pair) ==
  [g \in Groups |-> IF g \in Range(gs) THEN [k \in Kinds |-> pair] ELSE slot[g]]

\* the record of a completed call: res is its outcome, k counts what it undid
Done(op, c, n, res, k) == [op |-> op, c |-> c, n |-> n, res |-> res, k |-> k]

\* has_executor.exchange(true): the value the flag holds afterwards
exchange_keeps(flag, n) == flag
exchange(flag, n) == [flag EXCEPT ![n] = TRUE]

\* add_node, up to and including the atomic exchange on the node's flag
AddNodeExchange_push_first(th, c, n) ==
  /\ call[th].pc = "idle"
  /\ collector_alive[c]
  /\ node_alive[n]
  /\ IF has_executor[n]
     THEN /\ last' = Done("add_node", c, n, "already_owned", 0)
          /\ weak_nodes_' = [weak_nodes_ EXCEPT ![c] = Append(@, n)]
          /\ UNCHANGED <<has_executor, call>>
     ELSE /\ has_executor' = exchange(has_executor, n)
          /\ call' = [call EXCEPT ![th] = [pc |-> "push_back", c |-> c, n |-> n]]
          /\ last' = Done("add_node_exchange", c, n, "pending", 0)
          /\ UNCHANGED weak_nodes_
  /\ UNCHANGED <<clockVars, registryVars, now, due, timers_queue, node_alive, collector_alive,
                 can_be_taken_from, slot, notify_gc>>
AddNodeExchange(th, c, n) ==
  /\ call[th].pc = "idle"
  /\ collector_alive[c]
  /\ node_alive[n]
  /\ IF has_executor[n]
     THEN /\ last' = Done("add_node", c, n, "already_owned", 0)
          /\ UNCHANGED <<has_executor, call>>
     ELSE /\ has_executor' = exchange(has_executor, n)
          /\ call' = [call EXCEPT ![th] = [pc |-> "push_back", c |-> c, n |-> n]]
          /\ last' = Done("add_node_exchange", c, n, "pending", 0)
  /\ UNCHANGED <<clockVars, registryVars, now, due, timers_queue, weak_nodes_, node_alive, collector_alive,
                 can_be_taken_from, slot, notify_gc>>

\* add_node, weak_nodes_.push_back(node_ptr)
AddNodePushBack(th) ==
  /\ call[th].pc = "push_back"
  /\ weak_nodes_' = [weak_nodes_ EXCEPT ![call[th].c] = Append(@, call[th].n)]
  /\ call' = [call EXCEPT ![th] = [pc |-> "idle", c |-> 0, n |-> 0]]
  /\ last' = Done("add_node", call[th].c, call[th].n, "ok", 0)
  /\ UNCHANGED <<clockVars, registryVars, now, due, timers_queue, has_executor, node_alive, collector_alive,
                 can_be_taken_from, slot, notify_gc>>

\* the position of the first stored reference that locks to node n
FirstMatch_begin(c, n) == 1
FirstMatch(c, n) ==
  CHOOSE i \in DOMAIN weak_nodes_[c] :
    /\ weak_nodes_[c][i] = n
    /\ \A j \in 1..(i - 1) : weak_nodes_[c][j] # n

\* the record of a completed remove_node: k timers left the queue, ret is what
\* the guard-condition call returned
Removed(c, n, res, k, ret) ==
  [op |-> "remove_node", c |-> c, n |-> n, res |-> res, k |-> k, ret |-> ret]

\* remove_node; ret is what rcl_guard_condition_set_events_executor_callback
\* returns when it is called
RemoveNode_unset_first(c, n, ret) ==
  /\ collector_alive[c]
  /\ node_alive[n]
  /\ IF ~Tracks(c, n)
     THEN /\ ret = "RCL_RET_OK"
          /\ notify_gc' = [notify_gc EXCEPT ![n] = NullPair]
          /\ last' = Removed(c, n, "not_tracked", 0, "not_called")
          /\ UNCHANGED <<timers_queue, weak_nodes_, slot>>
     ELSE IF ret # "RCL_RET_OK"
     THEN /\ last' = Removed(c, n, "registration_error", 0, ret)
          /\ UNCHANGED <<timers_queue, weak_nodes_, slot, notify_gc>>
     ELSE /\ notify_gc' = [notify_gc EXCEPT ![n] = NullPair]
          /\ timers_queue' = [timers_queue EXCEPT ![c] = ClearTimers(@, TakeableGroups(n))]
          /\ slot' = SetCallbacks(TakeableGroups(n), NullPair)
          /\ weak_nodes_' = [weak_nodes_ EXCEPT ![c] = RemoveAt(@, FirstMatch(c, n))]
          /\ last' = Removed(c, n, "ok",
                             Len(timers_queue[c]) - Len(ClearTimers(timers_queue[c], TakeableGroups(n))),
                             ret)
  /\ UNCHANGED <<clockVars, registryVars, now, due, has_executor, node_alive, collector_alive,
                 can_be_taken_from, call>>
RemoveNode_clears_flag(c, n, ret) ==
  /\ collector_alive[c]
  /\ node_alive[n]
  /\ IF ~Tracks(c, n)
     THEN /\ ret = "RCL_RET_OK"
          /\ last' = Removed(c, n, "not_tracked", 0, "not_called")
          /\ UNCHANGED <<timers_queue, weak_nodes_, slot, notify_gc, has_executor>>
     ELSE IF ret # "RCL_RET_OK"
     THEN /\ last' = Removed(c, n, "registration_error", 0, ret)
          /\ UNCHANGED <<timers_queue, weak_nodes_, slot, notify_gc, has_executor>>
     ELSE /\ notify_gc' = [notify_gc EXCEPT ![n] = NullPair]
          /\ timers_queue' = [timers_queue EXCEPT ![c] = ClearTimers(@, TakeableGroups(n))]
          /\ slot' = SetCallbacks(TakeableGroups(n), NullPair)
          /\ weak_nodes_' = [weak_nodes_ EXCEPT ![c] = RemoveAt(@, FirstMatch(c, n))]
          /\ has_executor' = [has_executor EXCEPT ![n] = FALSE]
          /\ last' = Removed(c, n, "ok",
                             Len(timers_queue[c]) - Len(ClearTimers(timers_queue[c], TakeableGroups(n))),
                             ret)
  /\ UNCHANGED <<clockVars, registryVars, now, due, node_alive, collector_alive, can_be_taken_from, call>>
RemoveNode_throw_late(c, n, ret) ==
  /\ collector_alive[c]
  /\ node_alive[n]
  /\ IF ~Tracks(c, n)
     THEN /\ ret = "RCL_RET_OK"
          /\ last' = Removed(c, n, "not_tracked", 0, "not_called")
          /\ UNCHANGED <<timers_queue, weak_nodes_, slot, notify_gc>>
     ELSE /\ notify_gc' = [notify_gc EXCEPT ![n] = NullPair]
          /\ timers_queue' = [timers_queue EXCEPT ![c] = ClearTimers(@, TakeableGroups(n))]
          /\ slot' = SetCallbacks(TakeableGroups(n), NullPair)
          /\ weak_nodes_' = [weak_nodes_ EXCEPT ![c] = RemoveAt(@, FirstMatch(c, n))]
          /\ last' = Removed(c, n, IF ret = "RCL_RET_OK" THEN "ok" ELSE "registration_error",
                             Len(timers_queue[c]) - Len(ClearTimers(timers_queue[c], TakeableGroups(n))),
                             ret)
  /\ UNCHANGED <<clockVars, registryVars, now, due, has_executor, node_alive, collector_alive,
                 can_be_taken_from, call>>
RemoveNode(c, n, ret) ==
  /\ collector_alive[c]
  /\ node_alive[n]
  /\ IF ~Tracks(c, n)
     THEN /\ ret = "RCL_RET_OK"
          /\ last' = Removed(c, n, "not_tracked", 0, "not_called")
          /\ UNCHANGED <<timers_queue, weak_nodes_, slot, notify_gc>>
     ELSE IF ret # "RCL_RET_OK"
     THEN /\ last' = Removed(c, n, "registration_error", 0, ret)
          /\ UNCHANGED <<timers_queue, weak_nodes_, slot, notify_gc>>
     ELSE /\ notify_gc' = [notify_gc EXCEPT ![n] = NullPair]
          /\ timers_queue' = [timers_queue EXCEPT ![c] = ClearTimers(@, TakeableGroups(n))]
          /\ slot' = SetCallbacks(TakeableGroups(n), NullPair)
          /\ weak_nodes_' = [weak_nodes_ EXCEPT ![c] = RemoveAt(@, FirstMatch(c, n))]
          /\ last' = Removed(c, n, "ok",
                             Len(timers_queue[c]) - Len(ClearTimers(timers_queue[c], TakeableGroups(n))),
                             ret)
  /\ UNCHANGED <<clockVars, registryVars, now, due, has_executor, node_alive, collector_alive,
                 can_be_taken_from, call>>

\* execute: clear_all_timers_() and then set_entities_callbacks()
Execute(c) ==
  /\ collector_alive[c]
  /\ LET gs == VisitedGroups(weak_nodes_[c]) IN
       /\ \E q \in PushTimers({clear_all_timers_(timers_queue[c])}, gs) :
            timers_queue' = [timers_queue EXCEPT ![c] = q]
       /\ slot' = SetCallbacks(gs, DispatchPair(c))
  /\ last' = Done("execute", c, 0,
                  IF last.op = "execute" /\ last.c = c THEN "repeated" ELSE "ok", 0)
  /\ UNCHANGED <<clockVars, registryVars, now, due, weak_nodes_, has_executor, node_alive, collector_alive,
                 can_be_taken_from, notify_gc, call>>

\* the destructor's loop: has_executor.store(false) on every stored reference
\* that still locks
disassociate_none(c) == has_executor
disassociate(c) ==
  [n \in Nodes |-> IF Tracks(c, n) /\ Resolves(n) THEN FALSE ELSE has_executor[n]]

\* ~EventsExecutorEntitiesCollector
Destroy(c) ==
  /\ collector_alive[c]
  /\ \A th \in Threads : ~Inside(th, c)
  /\ has_executor' = disassociate(c)
  /\ weak_nodes_' = [weak_nodes_ EXCEPT ![c] = <<>>]
  /\ collector_alive' = [collector_alive EXCEPT ![c] = FALSE]
  /\ last' = Done("destroy", c, 0, "ok",
                  Cardinality({n \in Nodes : Tracks(c, n) /\ Resolves(n)}))
  /\ UNCHANGED <<clockVars, registryVars, now, due, timers_queue, node_alive, can_be_taken_from, slot,
                 notify_gc, call>>

\* ------------------------------------------------------------ environment
\* the owner of node n releases it: weak references to n stop resolving
NodeExpires(n) ==
  /\ node_alive[n]
  /\ \A th \in Threads : call[th].pc = "idle" \/ call[th].n # n
  /\ node_alive' = [node_alive EXCEPT ![n] = FALSE]
  /\ last' = Done("node_expires", 0, n, "ok", 0)
  /\ UNCHANGED <<clockVars, registryVars, now, due, timers_queue, weak_nodes_, has_executor, collector_alive,
                 can_be_taken_from, slot, notify_gc, call>>

\* a callback group of a live node becomes non-takeable, or takeable again
SetTakeable(g) ==
  /\ node_alive[g[1]]
  /\ can_be_taken_from' = [can_be_taken_from EXCEPT ![g] = ~@]
  /\ last' = Done("set_takeable", 0, g[1], "ok", 0)
  /\ UNCHANGED <<clockVars, registryVars, now, due, timers_queue, weak_nodes_, has_executor, node_alive,
                 collector_alive, slot, notify_gc, call>>

\* the executor of collector c wires the guard condition of a node it tracks
SetGuardCondition(c, n) ==
  /\ collector_alive[c]
  /\ node_alive[n]
  /\ Tracks(c, n)
  /\ notify_gc[n] # DispatchPair(c)
  /\ notify_gc' = [notify_gc EXCEPT ![n] = DispatchPair(c)]
  /\ last' = Done("set_guard_condition", c, n, "ok", 0)
  /\ UNCHANGED <<clockVars, registryVars, now, due, timers_queue, weak_nodes_, has_executor, node_alive,
                 collector_alive, can_be_taken_from, slot, call>>

Init ==
  /\ InitCollectors
  /\ notify_gc = [n \in Nodes |-> NullPair]
  /\ now = 0
  /\ due = [t \in Timers |-> Cardinality(Timers) - t]

Next ==
  \/ \E th \in Threads, c \in Collectors, n \in Nodes : AddNodeExchange(th, c, n)
  \/ \E th \in Threads : AddNodePushBack(th)
  \/ \E c \in Collectors, n \in Nodes, ret \in {"RCL_RET_OK", "RCL_RET_ERROR"} :
       RemoveNode(c, n, ret)
  \/ \E c \in Collectors : Execute(c)
  \/ \E c \in Collectors : Destroy(c)
  \/ \E n \in Nodes : NodeExpires(n)
  \/ \E g \in Groups : SetTakeable(g)
  \/ \E c \in Collectors, n \in Nodes : SetGuardCondition(c, n)

Spec == Init /\ [][Next]_vars

\* ------------------------------------------------------------ SpecClock: Clock
\* Clock::ros_time_is_active
RosTimeIsActive(ret) ==
  /\ LET r == ros_time_is_active(rcl_clock_, ret) IN
       last' = [op |-> "ros_time_is_active", result |-> r.result,
                logged |-> r.logged, ret |-> r.ret]
  /\ UNCHANGED <<now, due, timers_queue, collectorVars, clockVars, registryVars>>

\* Clock::create_jump_callback; h is the address the allocation yields when it
\* succeeds, ret is what rcl_clock_add_jump_callback returns
CreateJumpCallback(h, pre, post, threshold, alloc_ok, ret) ==
  /\ ~handlers[h].allocated
  /\ h \notin Registered
  /\ IF ~alloc_ok
     THEN /\ last' = [op |-> "create_jump_callback", user_data |-> h,
                      result |-> "bad_alloc"]
          /\ UNCHANGED clockVars
     ELSE IF ret # "RCL_RET_OK"
     THEN /\ handlers' = [handlers EXCEPT ![h] = NoHandler]
          /\ last' = [op |-> "create_jump_callback", user_data |-> h,
                      result |-> "throw"]
          /\ UNCHANGED rcl_clock_
     ELSE /\ handlers' = [handlers EXCEPT ![h] = JumpHandler(pre, post, threshold)]
          /\ rcl_clock_' = rcl_clock_add_jump_callback(rcl_clock_, threshold, h)
          /\ last' = [op |-> "create_jump_callback", user_data |-> h,
                      result |-> "ok"]
  /\ UNCHANGED <<now, due, timers_queue, collectorVars, registryVars>>

\* a holder of the handle copies the shared pointer
CopyHandle(h) ==
  /\ handlers[h].copies >= 1
  /\ handlers[h].copies < MaxCopies
  /\ handlers' = [handlers EXCEPT ![h].copies = @ + 1]
  /\ last' = [op |-> "copy_handle", user_data |-> h]
  /\ UNCHANGED <<now, due, timers_queue, collectorVars, rcl_clock_, registryVars>>

\* a holder releases its copy of the handle; the deleter runs on the last one.
\* ret is what rcl_clock_remove_jump_callback returns; a call that returns an
\* error has not removed the callback
ReleaseHandle(h, ret) ==
  /\ handlers[h].copies >= 1
  /\ IF handlers[h].copies > 1
     THEN /\ handlers' = [handlers EXCEPT ![h].copies = @ - 1]
          /\ last' = [op |-> "release_handle", user_data |-> h, deleter |-> FALSE,
                      ret |-> "not_called", logged |-> FALSE, result |-> "returned"]
          /\ UNCHANGED rcl_clock_
     ELSE /\ rcl_clock_' = IF ret = "RCL_RET_OK"
                           THEN rcl_clock_remove_jump_callback(rcl_clock_, h)
                           ELSE rcl_clock_
          /\ handlers' = [handlers EXCEPT ![h] = NoHandler]
          /\ last' = [op |-> "release_handle", user_data |-> h, deleter |-> TRUE,
                      ret |-> ret, logged |-> (ret # "RCL_RET_OK"),
                      result |-> "returned"]
  /\ UNCHANGED <<now, due, timers_queue, collectorVars, registryVars>>

\* the clock jumps by delta: it notifies every callback whose threshold the
\* jump satisfies, before the jump and after it
Jump(delta) ==
  /\ LET calls == {cb \in rcl_clock_.jump_callbacks : Satisfies(cb.threshold, delta)}
                    \X BOOLEAN
         live == {x \in calls : handlers[x[1].user_data].allocated}
         \* the first call through a deleted handler is the undefined one
         freed == {x \in calls \ live : x[2]}
     IN  \E ran \in [freed -> {{"crash"}, {}, {"pre"}, {"post"}}] :
           /\ \A x \in freed : ran[x] \in Notify(x[1].user_data, x[2])
           /\ last' = [op |-> "jump", delta |-> delta,
                       notified |->
                         {[user_data |-> x[1].user_data, before_jump |-> x[2],
                           ran |-> on_time_jump(handlers[x[1].user_data], x[2])]
                            : x \in live}
                         \cup {[user_data |-> x[1].user_data, before_jump |-> x[2],
                                ran |-> ran[x]] : x \in freed}]
  /\ UNCHANGED <<now, due, timers_queue, collectorVars, clockVars, registryVars>>

\* simulation-time override is switched on or off
SetRosTimeOverride ==
  /\ rcl_clock_' = [rcl_clock_ EXCEPT !.ros_time_override = ~@]
  /\ last' = [op |-> "set_ros_time_override"]
  /\ UNCHANGED <<now, due, timers_queue, collectorVars, handlers, registryVars>>

\* the underlying clock is finalized, or initialized again
SetClockValid ==
  /\ rcl_clock_' = [rcl_clock_ EXCEPT !.valid = ~@]
  /\ last' = [op |-> "set_clock_valid"]
  /\ UNCHANGED <<now, due, timers_queue, collectorVars, handlers, registryVars>>

NextClock ==
  \/ \E ret \in {"RCL_RET_OK", "RCL_RET_ERROR"} : RosTimeIsActive(ret)
  \/ \E h \in HandlerIds, pre \in BOOLEAN, post \in BOOLEAN, threshold \in Thresholds,
        alloc_ok \in BOOLEAN, ret \in {"RCL_RET_OK", "RCL_RET_ERROR"} :
       CreateJumpCallback(h, pre, post, threshold, alloc_ok, ret)
  \/ \E h \in HandlerIds : CopyHandle(h)
  \/ \E h \in HandlerIds, ret \in {"RCL_RET_OK", "RCL_RET_ERROR"} : ReleaseHandle(h, ret)
  \/ \E delta \in Deltas : Jump(delta)
  \/ SetRosTimeOverride
  \/ SetClockValid

SpecClock == Init /\ [][NextClock]_vars

\* ----------------------------------------- SpecIPC: ServiceIntraProcessBase
\* a thread enters add_intra_process_client(client, client_id), from outside
\* or from a callback that the dispatch of an intra-process call is running
AddClientCall(th, id, client) ==
  /\ ipc[th].pc \in {"idle", "callback"}
  /\ ipc' = [ipc EXCEPT ![th] = [pc |-> "lock", id |-> id, client |-> client,
                                 nested |-> (ipc[th].pc = "callback"), seen |-> {}]]
  /\ last' = [op |-> "add_client_call", th |-> th, id |-> id, client |-> client]
  /\ UNCHANGED <<now, due, timers_queue, collectorVars, clockVars, clients_,
                 reentrant_mutex_>>

\* std::unique_lock<std::recursive_mutex> lock(reentrant_mutex_)
AddClientLock(th) ==
  /\ ipc[th].pc = "lock"
  /\ may_lock(reentrant_mutex_, th)
  /\ reentrant_mutex_' = lock(reentrant_mutex_, th)
  /\ ipc' = [ipc EXCEPT ![th].pc = "index"]
  /\ last' = [op |-> "add_client_lock", th |-> th]
  /\ UNCHANGED <<now, due, timers_queue, collectorVars, clockVars, clients_>>

\* clients_[client_id]: the map is read to find the place of the key
AddClientIndex(th) ==
  /\ ipc[th].pc = "index"
  /\ ipc' = [ipc EXCEPT ![th].pc = "assign", ![th].seen = clients_]
  /\ last' = [op |-> "add_client_index", th |-> th]
  /\ UNCHANGED <<now, due, timers_queue, collectorVars, clockVars, clients_,
                 reentrant_mutex_>>

\* ... = client: the entry is written
AddClientAssign(th) ==
  /\ ipc[th].pc = "assign"
  /\ clients_' = store(ipc[th].seen, ipc[th].id, ipc[th].client)
  /\ ipc' = [ipc EXCEPT ![th].pc = "unlock"]
  /\ last' = [op |-> "store", th |-> th, id |-> ipc[th].id,
              client |-> ipc[th].client, before |-> clients_]
  /\ UNCHANGED <<now, due, timers_queue, collectorVars, clockVars, reentrant_mutex_>>

\* the unique_lock goes out of scope and add_intra_process_client returns
AddClientReturn(th) ==
  /\ ipc[th].pc = "unlock"
  /\ reentrant_mutex_' = unlock(reentrant_mutex_)
  /\ ipc' = [ipc EXCEPT ![th] = [IpcIdle EXCEPT !.pc = IF ipc[th].nested
                                                        THEN "callback" ELSE "idle"]]
  /\ last' = [op |-> "add_client", th |-> th, id |-> ipc[th].id,
              client |-> ipc[th].client, nested |-> ipc[th].nested]
  /\ UNCHANGED <<now, due, timers_queue, collectorVars, clockVars, clients_>>

\* the dispatch of an intra-process call takes the lock and runs user code
DispatchBegin(th) ==
  /\ ipc[th].pc = "idle"
  /\ may_lock(reentrant_mutex_, th)
  /\ reentrant_mutex_' = lock(reentrant_mutex_, th)
  /\ ipc' = [ipc EXCEPT ![th].pc = "callback"]
  /\ last' = [op |-> "dispatch_begin", th |-> th]
  /\ UNCHANGED <<now, due, timers_queue, collectorVars, clockVars, clients_>>

\* the user code returns and the dispatch releases the lock
DispatchEnd(th) ==
  /\ ipc[th].pc = "callback"
  /\ reentrant_mutex_' = unlock(reentrant_mutex_)
  /\ ipc' = [ipc EXCEPT ![th].pc = "idle"]
  /\ last' = [op |-> "dispatch_end", th |-> th]
  /\ UNCHANGED <<now, due, timers_queue, collectorVars, clockVars, clients_>>

NextIPC ==
  \/ \E th \in Threads, id \in ClientIds, client \in Clients : AddClientCall(th, id, client)
  \/ \E th \in Threads : AddClientLock(th)
  \/ \E th \in Threads : AddClientIndex(th)
  \/ \E th \in Threads : AddClientAssign(th)
  \/ \E th \in Threads : AddClientReturn(th)
  \/ \E th \in Threads : DispatchBegin(th)
  \/ \E th \in Threads : DispatchEnd(th)

SpecIPC == Init /\ [][NextIPC]_vars

\* ------------------------------------------------- TimersQueue: properties
FiredTimers(f) == {f[i].timer : i \in DOMAIN f}

\* C2 -- Timer ordering: one execute_ready_timers pass fires timers in
\* non-decreasing order of the due time they had when the pass started, and
\* every timer it fires had time_until_trigger() <= 0 when it was examined.
C2_TimerOrdering ==
  [][last'.op = "execute_ready_timers" =>
       LET f == last'.fired IN
         /\ \A i, j \in DOMAIN f : i < j => due[f[i].timer] <= due[f[j].timer]
         /\ \A i \in DOMAIN f : f[i].tut <= 0]_vars

\* a pass has fired two different timers with different due times and has
\* stopped in front of a timer that is not yet due
C2_Witness ==
  /\ last.op = "execute_ready_timers"
  /\ Len(last.fired) >= 2
  /\ last.fired[1].timer # last.fired[2].timer
  /\ last.fired[1].tut < last.fired[2].tut
  /\ Len(timers_queue[TQExec]) > Len(last.fired)

\* C3 -- Completeness of execute_ready: a pass executes every timer of the
\* queue that is due (time_until_trigger() <= 0) when the pass starts.
C3_Completeness ==
  [][last'.op = "execute_ready_timers" =>
       \A t \in Range(timers_queue[TQExec]) :
         is_ready(due, now, t) => t \in FiredTimers(last'.fired)]_vars

\* C3, restricted to passes over a queue that holds no timer twice
C3_CompletenessWithoutDuplicates ==
  [][(/\ last'.op = "execute_ready_timers"
      /\ \A t \in Timers : Count(timers_queue[TQExec], t) <= 1) =>
       \A t \in Range(timers_queue[TQExec]) :
         is_ready(due, now, t) => t \in FiredTimers(last'.fired)]_vars

MinTimeout(q, d, n) ==
  CHOOSE x \in {time_until_trigger(d, n, t) : t \in Range(q)} :
    \A t \in Range(q) : x <= time_until_trigger(d, n, t)

\* C4 -- get_head_timeout returns the minimum time_until_trigger() over the
\* timers of the queue, and nanoseconds::max() when the queue is empty.
C4_HeadTimeout ==
  last.op = "get_head_timeout" =>
    last.result = IF timers_queue[TQExec] = <<>>
                  THEN DurationMax
                  ELSE Duration(MinTimeout(timers_queue[TQExec], due, now))

\* C4, restricted to a queue that is not empty
C4_HeadTimeoutNonEmpty ==
  (last.op = "get_head_timeout" /\ timers_queue[TQExec] # <<>>) =>
    last.result = Duration(MinTimeout(timers_queue[TQExec], due, now))

\* ------------------------------------------- entities collector: properties
Pending(n) == {th \in Threads : call[th].pc = "push_back" /\ call[th].n = n}
\* the add_node calls on node n that succeeded and were not undone since
Owners(n) ==
  Cardinality(Pending(n))
    + Cardinality({<<c, i>> \in Collectors \X (1..NumNodes) :
                     i \in DOMAIN weak_nodes_[c] /\ weak_nodes_[c][i] = n})

\* C1 -- Single ownership: whatever the interleaving of the add_node calls on
\* a node, at most one of them has succeeded and is not yet undone by a
\* remove_node or by the destruction of its collector, and the node's flag is
\* set for as long as that success stands.
C1_SingleOwnership ==
  \A n \in Nodes : Owners(n) <= 1 /\ (Owners(n) = 1 => has_executor[n])

\* one thread is past the exchange on a node while the add_node of another
\* thread on the same node, on the other collector, has just failed
C1_Witness ==
  \E th \in Threads :
    /\ call[th].pc = "push_back"
    /\ last.op = "add_node"
    /\ last.res = "already_owned"
    /\ last.n = call[th].n
    /\ last.c # call[th].c

\* the groups a resync of collector c has to wire
Wanted(c) ==
  {g \in Groups : Tracks(c, g[1]) /\ node_alive[g[1]] /\ can_be_taken_from[g]}

\* C5 -- Resync result: after execute() of collector c the Timer Queue holds
\* exactly the timers of the takeable groups of the tracked, resolving nodes
\* (once each, in order), and every subscription, service, client and
\* waitable of those groups carries the dispatch pair of c.
C5_ResyncResult ==
  last.op = "execute" =>
    LET c == last.c
        q == timers_queue[c] IN
      /\ Range(q) = {TimerOf(g) : g \in Wanted(c)}
      /\ Len(q) = Cardinality(Wanted(c))
      /\ IsOrdered(q, due, now)
      /\ \A g \in Wanted(c) : \A k \in Kinds : slot[g][k] = DispatchPair(c)

\* a resync that wired a group while the collector also tracks a node that it
\* skipped, because the node no longer resolves or its group is not takeable
C5_Witness ==
  /\ last.op = "execute"
  /\ Wanted(last.c) # {}
  /\ \E n \in Nodes :
       /\ Tracks(last.c, n)
       /\ ~node_alive[n] \/ \E g \in Range(GroupsOf(n)) : ~can_be_taken_from[g]

\* C6 -- Resync idempotence: an execute() of collector c that directly
\* follows an execute() of c leaves every callback slot and the content of
\* the Timer Queue as the first one left them.
C6_ResyncIdempotent ==
  [][(last'.op = "execute" /\ last'.res = "repeated") =>
       LET c == last'.c IN
         /\ slot' = slot
         /\ Range(timers_queue'[c]) = Range(timers_queue[c])
         /\ Len(timers_queue'[c]) = Len(timers_queue[c])
         /\ \A c2 \in Collectors \ {c} : timers_queue'[c2] = timers_queue[c2]]_vars

\* a second resync in a row, over a queue that holds a timer
C6_Witness ==
  /\ last.op = "execute"
  /\ last.res = "repeated"
  /\ timers_queue[last.c] # <<>>
  /\ \E g \in Wanted(last.c) : slot[g]["service"] = DispatchPair(last.c)

\* C7 -- remove_node of a tracked node, the guard-condition call succeeding:
\* the node's guard-condition callback is unset, no timer of a takeable group
\* of the node is left in the Timer Queue, the other entities of those groups
\* have the null pair, the node's reference is gone, and the references and
\* the wiring of every other node are as before.
C7_RemoveNode ==
  [][(last'.op = "remove_node" /\ last'.res = "ok") =>
       LET c == last'.c
           n == last'.n IN
         /\ notify_gc'[n] = NullPair
         /\ \A g \in Range(TakeableGroups(n)) :
              /\ TimerOf(g) \notin Range(timers_queue'[c])
              /\ \A k \in Kinds : slot'[g][k] = NullPair
         /\ weak_nodes_'[c] = SelectSeq(weak_nodes_[c], LAMBDA m : m # n)
         /\ Len(weak_nodes_'[c]) = Len(weak_nodes_[c]) - 1
         /\ \A c2 \in Collectors \ {c} :
              weak_nodes_'[c2] = weak_nodes_[c2] /\ timers_queue'[c2] = timers_queue[c2]
         /\ \A g \in Groups : g[1] # n => slot'[g] = slot[g]
         /\ \A t \in Timers : NodeOfTimer(t) # n =>
              Count(timers_queue'[c], t) = Count(timers_queue[c], t)
         /\ \A m \in Nodes \ {n} : notify_gc'[m] = notify_gc[m]]_vars

\* a remove_node that took a timer out of the queue while another node stays
\* tracked and wired
C7_Witness ==
  /\ last.op = "remove_node"
  /\ last.res = "ok"
  /\ last.k >= 1
  /\ \E m \in Nodes \ {last.n} :
       /\ Tracks(last.c, m)
       /\ \E g \in Range(GroupsOf(m)) :
            /\ TimerOf(g) \in Range(timers_queue[last.c])
            /\ slot[g]["client"] = DispatchPair(last.c)

\* C8 -- Teardown disassociation: the destruction of a collector clears the
\* flag of every node it tracks whose reference resolves (the condition for
\* a later add_node to succeed), leaves the other flags alone, and drops
\* every stored reference.
C8_Teardown ==
  [][last'.op = "destroy" =>
       LET c == last'.c IN
         /\ \A n \in Nodes :
              IF Tracks(c, n) /\ node_alive[n]
              THEN ~has_executor'[n]
              ELSE has_executor'[n] = has_executor[n]
         /\ weak_nodes_'[c] = <<>>
         /\ \A c2 \in Collectors \ {c} : weak_nodes_'[c2] = weak_nodes_[c2]]_vars

\* a destruction that cleared the flag of a node, which is free again, and
\* dropped the reference of a node that no longer resolves
C8_Witness ==
  /\ last.op = "destroy"
  /\ last.k >= 1
  /\ \E n \in Nodes : node_alive[n] /\ ~has_executor[n]
  /\ \E n \in Nodes : ~node_alive[n] /\ has_executor[n] /\ Owners(n) = 0

\* C9 -- add_node: a call on a node whose flag is set fails with the
\* already-owned error and changes nothing; a call that succeeds leaves the
\* flag set and appends exactly one reference, and wires nothing.
C9_AddNode ==
  [][/\ (last'.op = "add_node" /\ last'.res = "already_owned") =>
          /\ has_executor[last'.n]
          /\ UNCHANGED <<weak_nodes_, has_executor, slot, timers_queue, notify_gc, call>>
     /\ (last'.op = "add_node" /\ last'.res = "ok") =>
          /\ has_executor'[last'.n]
          /\ weak_nodes_'[last'.c] = Append(weak_nodes_[last'.c], last'.n)
          /\ \A c2 \in Collectors \ {last'.c} : weak_nodes_'[c2] = weak_nodes_[c2]
          /\ UNCHANGED <<has_executor, slot, timers_queue, notify_gc>>]_vars

\* an add_node that failed on a node which the other collector tracks
C9_Witness ==
  /\ last.op = "add_node"
  /\ last.res = "already_owned"
  /\ \E c2 \in Collectors \ {last.c} : Tracks(c2, last.n)

\* C10 -- remove_node fails with the registration error when the call that
\* unsets the guard-condition callback fails, and then nothing is unwired, no
\* timer leaves the queue and the node stays tracked.
C10_RemoveNodeFails ==
  [][(last'.op = "remove_node" /\ last'.ret = "RCL_RET_ERROR") =>
       /\ last'.res = "registration_error"
       /\ Tracks(last'.c, last'.n)
       /\ UNCHANGED <<weak_nodes_, slot, timers_queue, notify_gc, has_executor>>]_vars

\* a failed remove_node of a node whose timer is in the queue
C10_Witness ==
  /\ last.op = "remove_node"
  /\ last.res = "registration_error"
  /\ \E g \in Range(TakeableGroups(last.n)) :
       /\ TimerOf(g) \in Range(timers_queue[last.c])
       /\ slot[g]["subscription"] = DispatchPair(last.c)

\* C11 -- remove_node of a node the collector does not track is a no-op: no
\* error, and the tracked sets, every callback slot, the Timer Queues and the
\* guard-condition callbacks are as before.
C11_RemoveUntracked ==
  [][(last'.op = "remove_node" /\ ~Tracks(last'.c, last'.n)) =>
       /\ last'.res = "not_tracked"
       /\ UNCHANGED <<weak_nodes_, slot, timers_queue, notify_gc, has_executor>>]_vars

\* a remove_node on a collector that does not track the node, while the other
\* collector tracks it, has wired it and has set its guard-condition callback
C11_Witness ==
  /\ last.op = "remove_node"
  /\ last.res = "not_tracked"
  /\ \E c2 \in Collectors \ {last.c} :
       /\ Tracks(c2, last.n)
       /\ notify_gc[last.n] = DispatchPair(c2)
       /\ \E g \in Range(GroupsOf(last.n)) :
            /\ TimerOf(g) \in Range(timers_queue[c2])
            /\ slot[g]["waitable"] = DispatchPair(c2)

NonTakeable == {g \in Groups : ~can_be_taken_from[g]}
InQueue(q, t) == t \in Range(q)

\* C12 as stated -- neither remove_node nor execute changes a callback slot
\* of a group that is not takeable, nor whether its timer is in a Timer Queue.
C12_SkippingPolicy ==
  [][(last'.op \in {"remove_node", "execute"}) =>
       \A g \in NonTakeable :
         /\ slot'[g] = slot[g]
         /\ \A c \in Collectors :
              InQueue(timers_queue'[c], TimerOf(g)) = InQueue(timers_queue[c], TimerOf(g))]_vars

\* C12, amended -- remove_node changes neither a callback slot of a group
\* that is not takeable nor the entries of its timer in a Timer Queue;
\* execute changes no callback slot of such a group and does not push its
\* timer, but the queue of the collector is cleared first, so that the timer
\* is not in it afterwards, whether it was before or not.
C12_SkippingPolicyAmended ==
  [][/\ (last'.op = "remove_node") =>
          \A g \in NonTakeable :
            /\ slot'[g] = slot[g]
            /\ \A c \in Collectors :
                 Count(timers_queue'[c], TimerOf(g)) = Count(timers_queue[c], TimerOf(g))
     /\ (last'.op = "execute") =>
          \A g \in NonTakeable :
            /\ slot'[g] = slot[g]
            /\ ~InQueue(timers_queue'[last'.c], TimerOf(g))
            /\ \A c \in Collectors \ {last'.c} : timers_queue'[c] = timers_queue[c]]_vars

\* after an execute, a tracked node whose group is not takeable keeps the
\* wiring of an earlier execute, while its timer is not in the queue
C12_Witness ==
  /\ last.op = "execute"
  /\ \E g \in NonTakeable :
       /\ Tracks(last.c, g[1])
       /\ node_alive[g[1]]
       /\ slot[g]["subscription"] = DispatchPair(last.c)
       /\ ~InQueue(timers_queue[last.c], TimerOf(g))

\* C18 -- remove_node never modifies the association flag: the flag of a node
\* that was added and removed stays set although nothing tracks the node, and
\* no later step (an add_node on any collector, a destruction) clears it.
C18_FlagSticks ==
  [][/\ (last'.op = "remove_node") => has_executor' = has_executor
     /\ (last'.op = "remove_node" /\ last'.res = "ok") =>
          /\ has_executor'[last'.n]
          /\ \A c \in Collectors : last'.n \notin Range(weak_nodes_'[c])
     /\ \A n \in Nodes : (has_executor[n] /\ Owners(n) = 0) =>
          /\ has_executor'[n]
          /\ \A c \in Collectors : n \notin Range(weak_nodes_'[c])
          /\ \A th \in Threads : call'[th].pc = "idle" \/ call'[th].n # n]_vars

\* an add_node that failed on a live node which no collector tracks and no
\* thread is adding, after the collector that had tracked it was destroyed
C18_Witness ==
  /\ last.op = "add_node"
  /\ last.res = "already_owned"
  /\ node_alive[last.n]
  /\ Owners(last.n) = 0
  /\ \E c \in Collectors : ~collector_alive[c]

\* C19 -- Timer Queue membership: every timer in the queue of a collector
\* belongs to a node the collector tracks, and is in the queue once.
C19_QueueMembership ==
  \A c \in Collectors : collector_alive[c] =>
    \A t \in Range(timers_queue[c]) :
      Tracks(c, NodeOfTimer(t)) /\ Count(timers_queue[c], t) = 1

\* C19, the second half alone: no timer is in the queue of a collector twice
C19_NoDuplicates ==
  \A c \in Collectors : \A t \in Timers : Count(timers_queue[c], t) <= 1

\* ------------------------------------- TimersQueue: properties, continued
\* C17 -- remove_timer removes exactly the first entry identical to the given
\* timer and leaves the other entries and their relative order unchanged, so
\* a sorted queue stays sorted; when no entry matches the queue is unchanged.
C17_RemoveFirstMatch ==
  [][last'.op = "remove_timer" =>
       LET q  == timers_queue[TQExec]
           q2 == timers_queue'[TQExec]
           t  == last'.timer
       IN  IF t \in Range(q)
           THEN /\ Len(q2) = Len(q) - 1
                /\ \E i \in DOMAIN q :
                     /\ q[i] = t
                     /\ \A j \in 1..(i - 1) : q[j] # t /\ q2[j] = q[j]
                     /\ \A j \in i..Len(q2) : q2[j] = q[j + 1]
                /\ IsOrdered(q, due, now) => IsOrdered(q2, due, now)
           ELSE q2 = q]_vars

\* a remove_timer has taken one of two entries of the same timer out of a
\* queue that also holds another timer
C17_Witness ==
  /\ last.op = "remove_timer"
  /\ last.timer \in Range(timers_queue[TQExec])
  /\ \E t \in Range(timers_queue[TQExec]) : t # last.timer

FiredCount(f, t) == Cardinality({i \in DOMAIN f : f[i].timer = t})

\* C20 -- an execute_ready_timers pass terminates and executes each timer of
\* the queue at most once, also when the timer is due again at once after
\* its execution; such a timer fires again only on a later pass.
C20_AtMostOnce ==
  [][last'.op = "execute_ready_timers" =>
       /\ Len(last'.fired) <= Len(timers_queue[TQExec])
       /\ \A t \in TQTimers : FiredCount(last'.fired, t) <= 1]_vars

\* C20, restricted to passes over a queue that holds no timer twice
C20_AtMostOnceWithoutDuplicates ==
  [][(/\ last'.op = "execute_ready_timers"
      /\ \A t \in Timers : Count(timers_queue[TQExec], t) <= 1) =>
       /\ Len(last'.fired) <= Len(timers_queue[TQExec])
       /\ \A t \in TQTimers : FiredCount(last'.fired, t) <= 1]_vars

\* ------------------------------------------------------- Clock: properties
\* C13 -- ros_time_is_active never raises: it returns true iff simulation-time
\* override is enabled, and on any failure to query the status (invalid clock
\* or failing status query) it logs the failure and returns false.
C13_OverrideQuery ==
  last.op = "ros_time_is_active" =>
    LET failure == ~rcl_clock_.valid \/ last.ret = "RCL_RET_ERROR" IN
      /\ last.result \in {"true", "false"}
      /\ last.result = "true" <=> (~failure /\ rcl_clock_.ros_time_override)
      /\ failure => last.logged

\* C13, restricted to calls in which the status query itself does not fail
C13_OverrideQueryUnlessQueryFails ==
  (last.op = "ros_time_is_active" /\ last.ret # "RCL_RET_ERROR") =>
    /\ last.result \in {"true", "false"}
    /\ last.result = "true" <=> (rcl_clock_.valid /\ rcl_clock_.ros_time_override)
    /\ ~rcl_clock_.valid => last.logged

\* C14 -- jump-observer lifecycle: the handlers registered with the clock are
\* the handlers whose handle is still held; a failed create_jump_callback
\* raises and leaves no handler registered or allocated; releasing the last
\* copy deregisters and frees the handler, and a deregistration failure is
\* logged and not propagated.
C14_Lifecycle ==
  /\ Registered = Held
  /\ \A h \in HandlerIds : handlers[h].allocated <=> h \in Held
  /\ (last.op = "create_jump_callback" /\ last.result # "ok") =>
       /\ last.user_data \notin Registered
       /\ ~handlers[last.user_data].allocated
  /\ (last.op = "release_handle" /\ last.deleter) =>
       /\ last.user_data \notin Registered
       /\ ~handlers[last.user_data].allocated
       /\ last.result = "returned"
       /\ last.ret # "RCL_RET_OK" => last.logged

\* C14 without the deregistration: what holds whether or not it fails
C14_LifecycleApartFromDeregistration ==
  /\ Held \subseteq Registered
  /\ \A h \in HandlerIds : handlers[h].allocated <=> h \in Held
  /\ (last.op = "create_jump_callback" /\ last.result # "ok") =>
       /\ last.user_data \notin Registered
       /\ ~handlers[last.user_data].allocated
  /\ (last.op = "release_handle" /\ last.deleter) =>
       /\ last.ret = "RCL_RET_OK" => last.user_data \notin Registered
       /\ ~handlers[last.user_data].allocated
       /\ last.result = "returned"
       /\ last.ret # "RCL_RET_OK" => last.logged

\* C15 -- jump threshold gating: a jump is dispatched to an observer (a handler
\* whose handle is held) only if it satisfies the observer's own threshold;
\* the notification before the jump runs the pre-callback if there is one,
\* the notification after it the post-callback if there is one, never both
\* and never a callback that is absent.
C15_JumpGating ==
  last.op = "jump" =>
    \A r \in last.notified :
      handlers[r.user_data].allocated =>
        LET h == handlers[r.user_data] IN
          /\ Satisfies(h.threshold, last.delta)
          /\ Cardinality(r.ran) <= 1
          /\ "pre" \in r.ran <=> (r.before_jump /\ h.pre_callback)
          /\ "post" \in r.ran <=> (~r.before_jump /\ h.post_callback)

\* a jump has run the pre-callback of one observer, has notified an observer
\* that has no post-callback, and has passed over an observer whose threshold
\* it does not satisfy
C15_Witness ==
  /\ last.op = "jump"
  /\ \E r \in last.notified : r.ran = {"pre"} /\ handlers[r.user_data].allocated
  /\ \E r \in last.notified :
       /\ handlers[r.user_data].allocated
       /\ ~r.before_jump /\ r.ran = {} /\ ~handlers[r.user_data].post_callback
  /\ \E h \in Held : /\ ~Satisfies(handlers[h].threshold, last.delta)
                     /\ \A r \in last.notified : r.user_data # h

\* ---------------------------------------------------- registry: properties
\* C16 -- intra-process registry: no add_intra_process_client loses the entry
\* of another one, whatever the interleaving; a client id has one entry, which
\* a later call with the same id overwrites; and a call made by the thread
\* that already holds the lock goes on without deadlock.
C16_Registry ==
  /\ \A e1, e2 \in clients_ : e1[1] = e2[1] => e1 = e2
  /\ last.op = "store" =>
       /\ <<last.id, last.client>> \in clients_
       /\ \A e \in last.before : e[1] # last.id => e \in clients_
       /\ \A e \in clients_ : e[1] # last.id => e \in last.before
  /\ last.op = "add_client" => <<last.id, last.client>> \in clients_
  /\ \A th \in Threads :
       (ipc[th].pc = "lock" /\ ipc[th].nested) =>
         /\ reentrant_mutex_.owner = th
         /\ ENABLED AddClientLock(th)
  /\ (\E th \in Threads : ipc[th].pc # "idle") => ENABLED NextIPC

\* a registration made from inside a callback has returned while another
\* thread waits for the lock, and the registry holds two ids
C16_Witness ==
  /\ last.op = "add_client"
  /\ last.nested
  /\ reentrant_mutex_.owner = last.th
  /\ \E th \in Threads \ {last.th} : ipc[th].pc = "lock"
  /\ Cardinality({e[1] : e \in clients_}) >= 2

====
